---- MODULE Spec2Model ----
(***************************************************************************)
(* Model of upup/pkg/fi/cloudup/spotinsttasks/helper.go: the helpers that  *)
(* translate kops' resource model into the Spotinst elastigroup and ocean  *)
(* wire shapes.  Every helper is a synchronous function, so a behaviour is *)
(* one call: Init draws the function and its arguments, the function's     *)
(* action runs it to completion and records what it returned, whether it   *)
(* panicked, and every collaborator call it made.                          *)
(*                                                                         *)
(* Go values: a pointer *T is a sequence of length at most one (<<>> is    *)
(* nil, <<x>> points at x); a string whose characters matter (a taint) is  *)
(* a sequence of one-character strings; a slice is a sequence (len and     *)
(* range do not tell a nil slice from an empty one); a map is a function.  *)
(***************************************************************************)
EXTENDS Integers, Sequences, FiniteSets, TLC

VARIABLES pc, fn, args, out, err, calls, panicked

vars == <<pc, fn, args, out, err, calls, panicked>>

(***************************************************************************)
(* Bounds of the model.                                                    *)
(***************************************************************************)
MaxTaintLen == 7
MaxTaints == 3
MaxSubnets == 3
MaxDevices == 2

(***************************************************************************)
(* Pointers and the fi.* pointer helpers.                                  *)
(***************************************************************************)
None == <<>>
Some(x) == <<x>>
Opt(S) == {None} \cup {Some(x) : x \in S}
IsNil(p) == Len(p) = 0

\* fi.String, fi.Bool, fi.Int, fi.Int64: a pointer to a copy of the value.
Ptr(x) == Some(x)
\* fi.StringValue: the pointed-at string, "" for nil.
StringValue(p) == IF IsNil(p) THEN "" ELSE p[1]
\* fi.Int32Value, fi.Int64Value: the pointed-at number, 0 for nil.
IntValue(p) == IF IsNil(p) THEN 0 ELSE p[1]
\* int64(int32), and int(int64) on the 64-bit targets kops builds for:
\* widening conversions, which keep every value.
Widen(n) == n

(***************************************************************************)
(* Errors.  A collaborator's error carries its text; fi.RequiredField and  *)
(* fmt.Errorf build new error values.                                      *)
(***************************************************************************)
CollaboratorErrors == {[kind |-> "collaborator", detail |-> <<"e1">>],
                       [kind |-> "collaborator", detail |-> <<"e2">>]}
\* err.Error(), as %v prints it.
ErrorText(e) == e.detail[1]
RequiredField(key) == [kind |-> "RequiredField", detail |-> <<key>>]
Errorf(format, operands) == [kind |-> "fmt.Errorf", detail |-> <<format>> \o operands]

(***************************************************************************)
(* Tags and labels (the four mappers share one shape).                     *)
(***************************************************************************)
TagKeys == {"k1", "k2", "k3"}
TagValues == {"v1", "v2"}
StringMaps == UNION {[ks -> TagValues] : ks \in SUBSET TagKeys}

\* The orders in which `range` may visit the keys of a map: any.
RangeOrders(S) ==
    {o \in [1..Cardinality(S) -> S] : \A i, j \in DOMAIN o : i # j => o[i] # o[j]}

\* make([]*Tag, 0, len(m)) followed by one append per entry, in the order
\* the range visits them.  A nil map has no entries.
BuildKeyValueRecords(m, order) ==
    [i \in 1..Len(order) |-> [Key |-> Ptr(order[i]), Value |-> Ptr(m[1][order[i]])]]

MapKeys(m) == IF IsNil(m) THEN {} ELSE DOMAIN m[1]

buildElastigroupTags(tags, order) == BuildKeyValueRecords(tags, order)
buildOceanTags(tags, order) == BuildKeyValueRecords(tags, order)
buildAutoScaleLabels(labels, order) == BuildKeyValueRecords(labels, order)
buildOceanLabels(labels, order) == BuildKeyValueRecords(labels, order)

(***************************************************************************)
(* What a call leaves behind: its first result, its error, the collaborator *)
(* calls it made, and whether it panicked instead of returning.            *)
(***************************************************************************)
Returned(o, e, c) == [out |-> o, err |-> e, calls |-> c, panicked |-> FALSE]
Panicked(c) == [out |-> None, err |-> None, calls |-> c, panicked |-> TRUE]
CallTo(callee, arg, response) == [callee |-> callee, arg |-> arg, err |-> response.err]

(***************************************************************************)
(* Block devices.                                                          *)
(***************************************************************************)
DeviceNames == {"/dev/sdb", "/dev/sdc"}
VirtualNames == {"ephemeral0", "ephemeral1"}
VolumeTypes == {"gp2", "io1", ""}
VolumeSizes == {8}
VolumeIops == {0, 3000}
InstanceTypeNames == {"m3.large"}
ImageIDs == {"ami-1"}
RootDeviceNames == {"/dev/xvda"}

\* awstasks.BlockDeviceMapping, the fields this file reads or writes.
BlockDeviceMappings ==
    [VirtualName : Opt(VirtualNames),
     EbsDeleteOnTermination : Opt(BOOLEAN),
     EbsVolumeSize : Opt(VolumeSizes),
     EbsVolumeType : Opt(VolumeTypes),
     EbsVolumeIops : Opt(VolumeIops)]

\* &awstasks.BlockDeviceMapping{}: every field nil.
ZeroBlockDeviceMapping ==
    [VirtualName |-> None, EbsDeleteOnTermination |-> None, EbsVolumeSize |-> None,
     EbsVolumeType |-> None, EbsVolumeIops |-> None]

RootVolumeOpts == [Size : Opt(VolumeSizes), Type : Opt(VolumeTypes), IOPS : Opt(VolumeIops)]

\* What awsup.GetMachineTypeInfo may answer: an error, or a machine type
\* with its ephemeral devices (device names may repeat).
EphemeralDevices == [DeviceName : DeviceNames, VirtualName : VirtualNames]
RECURSIVE SeqsUpTo(_, _)
SeqsUpTo(S, n) ==
    IF n = 0 THEN {<<>>}
    ELSE LET shorter == SeqsUpTo(S, n - 1)
         IN  shorter \cup {Append(q, x) : q \in {r \in shorter : Len(r) = n - 1}, x \in S}
MachineTypeResponses ==
    {[err |-> Some(e), devices |-> <<>>] : e \in CollaboratorErrors}
        \cup {[err |-> None, devices |-> d] : d \in SeqsUpTo(EphemeralDevices, MaxDevices)}

\* What cloud.ResolveImage may answer: an error, no image, or an image.
Images == [RootDeviceName : Opt(RootDeviceNames)]
ImageResponses ==
    {[err |-> Some(e), image |-> None] : e \in CollaboratorErrors}
        \cup {[err |-> None, image |-> i] : i \in Opt(Images)}

\* The loop of buildEphemeralDevices: one map store per device, in order,
\* a later store to the same key replacing the earlier one.
RECURSIVE StoreEphemeralDevices(_, _)
StoreEphemeralDevices(devices, n) ==
    IF n = 0 THEN <<>>
    ELSE LET before == StoreEphemeralDevices(devices, n - 1)
             ed == devices[n]
             m == [ZeroBlockDeviceMapping EXCEPT !.VirtualName = Ptr(ed.VirtualName)]
         IN  [k \in (DOMAIN before) \cup {ed.DeviceName} |->
                 IF k = ed.DeviceName THEN m ELSE before[k]]

\* The lookup made before the nil check, on fi.StringValue of the name.
buildEphemeralDevicesLookupFirst(instanceTypeName, GetMachineTypeInfo) ==
    LET lookup == <<CallTo("GetMachineTypeInfo", StringValue(instanceTypeName),
                           GetMachineTypeInfo)>>
    IN  IF IsNil(instanceTypeName)
        THEN Returned(None, Some(RequiredField("InstanceType")), lookup)
        ELSE IF ~IsNil(GetMachineTypeInfo.err)
        THEN Returned(None, GetMachineTypeInfo.err, lookup)
        ELSE Returned(
                 Some(StoreEphemeralDevices(GetMachineTypeInfo.devices,
                                            Len(GetMachineTypeInfo.devices))),
                 None, lookup)

buildEphemeralDevices(instanceTypeName, GetMachineTypeInfo) ==
    IF IsNil(instanceTypeName)
    THEN Returned(None, Some(RequiredField("InstanceType")), <<>>)
    ELSE LET lookup == <<CallTo("GetMachineTypeInfo", instanceTypeName[1], GetMachineTypeInfo)>>
         IN  IF ~IsNil(GetMachineTypeInfo.err)
             THEN Returned(None, GetMachineTypeInfo.err, lookup)
             ELSE Returned(
                      Some(StoreEphemeralDevices(GetMachineTypeInfo.devices,
                                                 Len(GetMachineTypeInfo.devices))),
                      None, lookup)

\* The nil-image test made first: a failed lookup reads as "not found".
resolveImageNotFoundFirst(ResolveImage, name) ==
    IF IsNil(ResolveImage.image)
    THEN [image |-> None,
          err |-> Some(Errorf("spotinst: unable to resolve image %q: not found", <<name>>))]
    ELSE [image |-> ResolveImage.image, err |-> None]

resolveImage(ResolveImage, name) ==
    IF ~IsNil(ResolveImage.err)
    THEN [image |-> None,
          err |-> Some(Errorf("spotinst: unable to resolve image %q: %v",
                              <<name, ErrorText(ResolveImage.err[1])>>))]
    ELSE IF IsNil(ResolveImage.image)
    THEN [image |-> None,
          err |-> Some(Errorf("spotinst: unable to resolve image %q: not found", <<name>>))]
    ELSE [image |-> ResolveImage.image, err |-> None]

\* The IOPS forwarded whatever the volume type.
RootIopsForwardedAnyType(o) == ~IsNil(o.IOPS)

\* The condition under which buildRootDevice forwards opts.IOPS.
RootIopsForwarded(o) == ~IsNil(o.IOPS) /\ StringValue(o.Type) # "gp2"

buildRootDevice(ResolveImage, imageID, opts) ==
    LET name == StringValue(imageID)
        resolved == resolveImage(ResolveImage, name)
        lookup == <<CallTo("ResolveImage", name, ResolveImage)>>
    IN  IF ~IsNil(resolved.err) THEN Returned(None, resolved.err, lookup)
        ELSE IF IsNil(opts) THEN Panicked(lookup)   \* opts.Size on a nil opts
        ELSE LET rootDeviceName == StringValue(resolved.image[1].RootDeviceName)
                 o == opts[1]
                 base == [ZeroBlockDeviceMapping EXCEPT
                             !.EbsDeleteOnTermination = Ptr(TRUE),
                             !.EbsVolumeSize = Ptr(Widen(IntValue(o.Size))),
                             !.EbsVolumeType = o.Type]
                 rootDeviceMapping ==
                     IF RootIopsForwarded(o)
                     THEN [base EXCEPT !.EbsVolumeIops = Ptr(Widen(IntValue(o.IOPS)))]
                     ELSE base
             IN  Returned(Some([k \in {rootDeviceName} |-> rootDeviceMapping]), None, lookup)

\* &awseg.EBS{} with the fields this file sets.
ZeroEBS == [DeleteOnTermination |-> None, VolumeSize |-> None, VolumeType |-> None,
            IOPS |-> None]

\* The EBS record attached for a lone IOPS as well.
HasEBSOrIops(m) ==
    \/ ~IsNil(m.EbsDeleteOnTermination)
    \/ ~IsNil(m.EbsVolumeSize)
    \/ ~IsNil(m.EbsVolumeType)
    \/ ~IsNil(m.EbsVolumeIops)

\* The condition under which buildBlockDeviceMapping attaches an EBS record.
HasEBS(m) ==
    \/ ~IsNil(m.EbsDeleteOnTermination)
    \/ ~IsNil(m.EbsVolumeSize)
    \/ ~IsNil(m.EbsVolumeType)

\* The IOPS forwarded whatever the volume type.
EbsIopsForwardedAnyType(m) == ~IsNil(m.EbsVolumeIops)

\* The condition under which buildBlockDeviceMapping forwards the IOPS.
EbsIopsForwarded(m) == ~IsNil(m.EbsVolumeIops) /\ StringValue(m.EbsVolumeType) # "gp2"

buildBlockDeviceMapping(deviceName, i) ==
    IF IsNil(i) THEN Panicked(<<>>)                 \* i.VirtualName on a nil i
    ELSE LET m == i[1]
             ebs == [ZeroEBS EXCEPT
                        !.DeleteOnTermination = m.EbsDeleteOnTermination,
                        !.VolumeSize = Ptr(Widen(IntValue(m.EbsVolumeSize))),
                        !.VolumeType = m.EbsVolumeType]
             withIops ==
                 IF EbsIopsForwarded(m)
                 THEN [ebs EXCEPT !.IOPS = Ptr(Widen(IntValue(m.EbsVolumeIops)))]
                 ELSE ebs
         IN  Returned(
                 [DeviceName |-> Ptr(deviceName),
                  VirtualName |-> m.VirtualName,
                  EBS |-> IF HasEBS(m) THEN Some(withIops) ELSE None],
                 None, <<>>)

(***************************************************************************)
(* Taints.  A taint string is a sequence of characters.                    *)
(***************************************************************************)
Chars == {"=", ":", "a"}
TaintStrings == SeqsUpTo(Chars, MaxTaintLen)

Dedicated == <<"d", "e", "d", "i", "c", "a", "t", "e", "d", "=", "t", "r", "u", "e", ":",
               "N", "o", "S", "c", "h", "e", "d", "u", "l", "e">>
Malformed == <<"m", "a", "l", "f", "o", "r", "m", "e", "d">>
TwoLines == <<"x", "=", "\n", "k", "=", "v", ":", "e", "\n", ":", "y">>
SampleTaints == {Dedicated, Malformed, TwoLines, <<>>}

TaintLists == {<<t>> : t \in TaintStrings} \cup SeqsUpTo(SampleTaints, MaxTaints)

Min(S) == CHOOSE x \in S : \A y \in S : x <= y
Max(S) == CHOOSE x \in S : \A y \in S : x >= y

\* `.` of a Go regular expression: any character but a line break.
Dot(c) == c # "\n"
AllDot(s, a, b) == \A i \in a..b : Dot(s[i])

\* re.SubexpNames() of `(?P<Key>.+)\=(?P<Value>.+)\:(?P<Effect>.+)`:
\* Go index 0 (the whole match) is unnamed.
SubexpNames == <<"", "Key", "Value", "Effect">>

\* The key group made lazy (`.+?`): it stops at the first `=` that works.
FindStringSubmatchLazyKey(s) ==
    LET n == Len(s)
        EffectEnds(j) == {e \in (j + 1)..n : AllDot(s, j + 1, e)}
        ValueEnds(k) == {j \in (k + 2)..n :
                            s[j] = ":" /\ AllDot(s, k + 1, j - 1) /\ EffectEnds(j) # {}}
        KeyEnds(p) == {k \in (p + 1)..n :
                          s[k] = "=" /\ AllDot(s, p, k - 1) /\ ValueEnds(k) # {}}
        starts == {p \in 1..n : KeyEnds(p) # {}}
    IN  IF starts = {} THEN <<>>
        ELSE LET p == Min(starts)
                 k == Min(KeyEnds(p))
                 j == Max(ValueEnds(k))
                 e == Max(EffectEnds(j))
             IN  <<SubSeq(s, p, e), SubSeq(s, p, k - 1), SubSeq(s, k + 1, j - 1),
                   SubSeq(s, j + 1, e)>>

\* re.FindStringSubmatch(s): nil when the pattern matches nowhere, else the
\* whole match and the three groups of the leftmost match, each `.+` taking
\* as much as lets the rest of the pattern still match (key first, then
\* value, then effect).
FindStringSubmatch(s) ==
    LET n == Len(s)
        EffectEnds(j) == {e \in (j + 1)..n : AllDot(s, j + 1, e)}
        ValueEnds(k) == {j \in (k + 2)..n :
                            s[j] = ":" /\ AllDot(s, k + 1, j - 1) /\ EffectEnds(j) # {}}
        KeyEnds(p) == {k \in (p + 1)..n :
                          s[k] = "=" /\ AllDot(s, p, k - 1) /\ ValueEnds(k) # {}}
        starts == {p \in 1..n : KeyEnds(p) # {}}
    IN  IF starts = {} THEN <<>>
        ELSE LET p == Min(starts)
                 k == Max(KeyEnds(p))
                 j == Max(ValueEnds(k))
                 e == Max(EffectEnds(j))
             IN  <<SubSeq(s, p, e), SubSeq(s, p, k - 1), SubSeq(s, k + 1, j - 1),
                   SubSeq(s, j + 1, e)>>

\* The inner loop of buildOceanTaints for one field of the taint: the group
\* called `name` is stored when its Go index i satisfies 0 < i <= len(match).
TaintField(match, name) ==
    LET stored == {i \in 1..(Len(SubexpNames) - 1) :
                      SubexpNames[i + 1] = name /\ i <= Len(match)}
    IN  IF stored = {} THEN None ELSE Ptr(match[Max(stored) + 1])

ParseTaint(t) ==
    LET match == FindStringSubmatch(t)
    IN  [Key |-> TaintField(match, "Key"),
         Value |-> TaintField(match, "Value"),
         Effect |-> TaintField(match, "Effect")]

\* The outer loop: a taint is appended only with all three fields set.
RECURSIVE AppendTaints(_, _)
AppendTaints(taints, n) ==
    IF n = 0 THEN <<>>
    ELSE LET before == AppendTaints(taints, n - 1)
             taint == ParseTaint(taints[n])
         IN  IF ~IsNil(taint.Key) /\ ~IsNil(taint.Value) /\ ~IsNil(taint.Effect)
             THEN Append(before, taint)
             ELSE before

\* A malformed taint reported as an error instead of being skipped.
buildOceanTaintsRejecting(taints) ==
    LET parsed == AppendTaints(taints, Len(taints))
    IN  IF Len(parsed) < Len(taints)
        THEN Returned(<<>>, Some(Errorf("invalid taint", <<>>)), <<>>)
        ELSE Returned(parsed, None, <<>>)

\* regexp.Compile of this constant pattern succeeds, so the error result
\* is always nil.
buildOceanTaints(taints) == Returned(AppendTaints(taints, Len(taints)), None, <<>>)

(***************************************************************************)
(* Subnets.                                                                *)
(***************************************************************************)
SubnetIDs == {"subnet-a", "subnet-b"}
Subnets == [ID : Opt(SubnetIDs)]
SubnetSlices == SeqsUpTo(Subnets, MaxSubnets)

\* utils.StringSlicesEqualIgnoreOrder: equal as sets of strings.
StringSlicesEqualIgnoreOrder(l, r) ==
    {l[i] : i \in DOMAIN l} = {r[i] : i \in DOMAIN r}

\* A right-hand subnet without an ID skipped instead of ending the comparison.
subnetSlicesEqualSkippingUnset(l, r) ==
    IF \E i \in DOMAIN l : IsNil(l[i].ID)
    THEN Panicked(<<>>)
    ELSE LET rSet == SelectSeq(r, LAMBDA s : ~IsNil(s.ID))
         IN  Returned(
                 StringSlicesEqualIgnoreOrder([i \in DOMAIN l |-> l[i].ID[1]],
                                              [i \in DOMAIN rSet |-> rSet[i].ID[1]]),
                 None, <<>>)

subnetSlicesEqualIgnoreOrder(l, r) ==
    IF \E i \in DOMAIN l : IsNil(l[i].ID)
    THEN Panicked(<<>>)                             \* *s.ID on a nil ID
    ELSE IF \E i \in DOMAIN r : IsNil(r[i].ID)
    THEN Returned(FALSE, None, <<>>)
    ELSE Returned(
             StringSlicesEqualIgnoreOrder([i \in DOMAIN l |-> l[i].ID[1]],
                                          [i \in DOMAIN r |-> r[i].ID[1]]),
             None, <<>>)

(***************************************************************************)
(* Orientation.                                                            *)
(***************************************************************************)
OrientationBalanced == "balanced"
OrientationCost == "costOriented"
OrientationAvailability == "availabilityOriented"
OrientationEqualZoneDistribution == "equalAzDistribution"

OrientationStrings ==
    {"cost", "availability", "equal-distribution", "", "unknown-value", "Cost",
     "balanced", "costOriented", "availabilityOriented", "equalAzDistribution"}

\* An unrecognised string converted to an Orientation as it is.
normalizeOrientationPassThrough(orientation) ==
    IF IsNil(orientation) THEN Returned(OrientationBalanced, None, <<>>)
    ELSE Returned(
             CASE orientation[1] = "cost" -> OrientationCost
               [] orientation[1] = "availability" -> OrientationAvailability
               [] orientation[1] = "equal-distribution" -> OrientationEqualZoneDistribution
               [] OTHER -> orientation[1],
             None, <<>>)

normalizeOrientation(orientation) ==
    IF IsNil(orientation) THEN Returned(OrientationBalanced, None, <<>>)
    ELSE Returned(
             CASE orientation[1] = "cost" -> OrientationCost
               [] orientation[1] = "availability" -> OrientationAvailability
               [] orientation[1] = "equal-distribution" -> OrientationEqualZoneDistribution
               [] OTHER -> OrientationBalanced,
             None, <<>>)

(***************************************************************************)
(* The calls a behaviour may start with.                                   *)
(***************************************************************************)
MapperNames == {"buildElastigroupTags", "buildOceanTags",
                "buildAutoScaleLabels", "buildOceanLabels"}

InitMapper ==
    /\ fn \in MapperNames
    /\ args \in [m : Opt(StringMaps)]

InitEphemeralDevices ==
    /\ fn = "buildEphemeralDevices"
    /\ args \in [instanceTypeName : Opt(InstanceTypeNames)]

InitRootDevice ==
    /\ fn = "buildRootDevice"
    /\ args \in [imageID : Opt(ImageIDs), opts : Opt(RootVolumeOpts)]

InitBlockDeviceMapping ==
    /\ fn = "buildBlockDeviceMapping"
    /\ args \in [deviceName : DeviceNames \cup RootDeviceNames,
                 i : Opt(BlockDeviceMappings)]

InitOceanTaints ==
    /\ fn = "buildOceanTaints"
    /\ args \in [taints : TaintLists]

InitSubnetSlices ==
    /\ fn = "subnetSlicesEqualIgnoreOrder"
    /\ args \in [l : SubnetSlices, r : SubnetSlices]

InitOrientation ==
    /\ fn = "normalizeOrientation"
    /\ args \in [orientation : Opt(OrientationStrings)]

Init ==
    /\ pc = "called"
    /\ out = None
    /\ err = None
    /\ calls = <<>>
    /\ panicked = FALSE
    /\ \/ InitMapper
       \/ InitEphemeralDevices
       \/ InitRootDevice
       \/ InitBlockDeviceMapping
       \/ InitOceanTaints
       \/ InitSubnetSlices
       \/ InitOrientation

\* A function returns: its results are recorded and the call is over.
Return(o, e, c, p) ==
    /\ pc' = "returned"
    /\ out' = o
    /\ err' = e
    /\ calls' = c
    /\ panicked' = p
    /\ UNCHANGED <<fn, args>>

CallElastigroupTags ==
    /\ pc = "called" /\ fn = "buildElastigroupTags"
    /\ \E order \in RangeOrders(MapKeys(args.m)) :
          Return(buildElastigroupTags(args.m, order), None, <<>>, FALSE)

CallOceanTags ==
    /\ pc = "called" /\ fn = "buildOceanTags"
    /\ \E order \in RangeOrders(MapKeys(args.m)) :
          Return(buildOceanTags(args.m, order), None, <<>>, FALSE)

CallAutoScaleLabels ==
    /\ pc = "called" /\ fn = "buildAutoScaleLabels"
    /\ \E order \in RangeOrders(MapKeys(args.m)) :
          Return(buildAutoScaleLabels(args.m, order), None, <<>>, FALSE)

CallOceanLabels ==
    /\ pc = "called" /\ fn = "buildOceanLabels"
    /\ \E order \in RangeOrders(MapKeys(args.m)) :
          Return(buildOceanLabels(args.m, order), None, <<>>, FALSE)

\* A call ends the way its function says.
Finish(r) == Return(r.out, r.err, r.calls, r.panicked)

CallEphemeralDevices ==
    /\ pc = "called" /\ fn = "buildEphemeralDevices"
    /\ \E response \in MachineTypeResponses :
          Finish(buildEphemeralDevices(args.instanceTypeName, response))

CallRootDevice ==
    /\ pc = "called" /\ fn = "buildRootDevice"
    /\ \E response \in ImageResponses :
          Finish(buildRootDevice(response, args.imageID, args.opts))

CallBlockDeviceMapping ==
    /\ pc = "called" /\ fn = "buildBlockDeviceMapping"
    /\ Finish(buildBlockDeviceMapping(args.deviceName, args.i))

CallOceanTaints ==
    /\ pc = "called" /\ fn = "buildOceanTaints"
    /\ Finish(buildOceanTaints(args.taints))

CallSubnetSlicesEqual ==
    /\ pc = "called" /\ fn = "subnetSlicesEqualIgnoreOrder"
    /\ Finish(subnetSlicesEqualIgnoreOrder(args.l, args.r))

CallNormalizeOrientation ==
    /\ pc = "called" /\ fn = "normalizeOrientation"
    /\ Finish(normalizeOrientation(args.orientation))

Next ==
    \/ CallElastigroupTags
    \/ CallOceanTags
    \/ CallAutoScaleLabels
    \/ CallOceanLabels
    \/ CallEphemeralDevices
    \/ CallRootDevice
    \/ CallBlockDeviceMapping
    \/ CallOceanTaints
    \/ CallSubnetSlicesEqual
    \/ CallNormalizeOrientation

Spec == Init /\ [][Next]_vars
(***************************************************************************)
(* Properties.                                                             *)
(***************************************************************************)
Done(f) == pc = "returned" /\ fn = f
Succeeded(f) == Done(f) /\ ~panicked /\ IsNil(err)

\* C1: every successful buildRootDevice returns one root mapping, and that
\* mapping carries a volume IOPS exactly when opts.IOPS is set and opts.Type
\* is not "gp2"; the value carried is opts.IOPS.  So gp2 with 3000 never
\* yields an IOPS and io1 with 3000 always yields 3000.
C1_RootIopsOnlyOffGp2 ==
    Succeeded("buildRootDevice") =>
        LET o == args.opts[1]
            m == out[1]
        IN  /\ Cardinality(DOMAIN m) = 1
            /\ \A k \in DOMAIN m :
                  LET iops == m[k].EbsVolumeIops
                  IN  /\ (iops # None) <=> (o.IOPS # None /\ o.Type # Some("gp2"))
                      /\ iops # None => iops = o.IOPS
                      /\ (o.Type = Some("gp2") /\ o.IOPS = Some(3000)) => iops = None
                      /\ (o.Type = Some("io1") /\ o.IOPS = Some(3000)) => iops = Some(3000)

\* A gp2 root volume asked for with 3000 IOPS, built without them.
C1_Witness ==
    /\ Succeeded("buildRootDevice")
    /\ args.opts[1].Type = Some("gp2")
    /\ args.opts[1].IOPS = Some(3000)
    /\ \E k \in DOMAIN out[1] : out[1][k].EbsVolumeIops = None

\* C2: for every device name and non-nil mapping, buildBlockDeviceMapping
\* attaches an EBS record exactly when EbsDeleteOnTermination, EbsVolumeSize
\* or EbsVolumeType is set, and copies the device name and the virtual name;
\* a mapping with only EbsVolumeIops set gets no EBS record.
C2_EbsOnlyWithEbsFields ==
    (Done("buildBlockDeviceMapping") /\ args.i # None) =>
        LET m == args.i[1]
        IN  /\ ~panicked
            /\ out.DeviceName = Some(args.deviceName)
            /\ out.VirtualName = m.VirtualName
            /\ (out.EBS # None) <=>
                  ~(/\ m.EbsDeleteOnTermination = None
                    /\ m.EbsVolumeSize = None
                    /\ m.EbsVolumeType = None)

\* A mapping whose only EBS field is the IOPS, converted without an EBS record.
C2_Witness ==
    /\ Done("buildBlockDeviceMapping")
    /\ args.i # None
    /\ args.i[1].EbsVolumeIops = Some(3000)
    /\ args.i[1].EbsDeleteOnTermination = None
    /\ args.i[1].EbsVolumeSize = None
    /\ args.i[1].EbsVolumeType = None
    /\ ~panicked
    /\ out.EBS = None

\* The wire record of one mapping obeys the gp2 rule.
WireObeysGp2Rule(m, wire) ==
    wire.EBS # None =>
        /\ wire.EBS[1].VolumeType = Some("gp2") => wire.EBS[1].IOPS = None
        /\ (wire.EBS[1].IOPS # None) <=>
              (m.EbsVolumeIops # None /\ m.EbsVolumeType # Some("gp2"))

\* C3: the record buildBlockDeviceMapping produces never has an IOPS with
\* volume type "gp2", and an attached EBS record has an IOPS exactly when the
\* input IOPS is set and the type is not "gp2"; and converting what
\* buildRootDevice returned yields a wire IOPS exactly when opts.IOPS is set
\* and opts.Type is not "gp2".
C3_Gp2RuleAtBothPoints ==
    /\ (Done("buildBlockDeviceMapping") /\ args.i # None) =>
          WireObeysGp2Rule(args.i[1], out)
    /\ Succeeded("buildRootDevice") =>
          \A k \in DOMAIN out[1] :
              LET wire == buildBlockDeviceMapping(k, Some(out[1][k])).out
                  o == args.opts[1]
              IN  /\ WireObeysGp2Rule(out[1][k], wire)
                  /\ wire.EBS # None
                  /\ (wire.EBS[1].IOPS # None) <=>
                        (o.IOPS # None /\ o.Type # Some("gp2"))

\* A gp2 mapping with an IOPS, converted to an EBS record without one.
C3_Witness ==
    /\ Done("buildBlockDeviceMapping")
    /\ args.i # None
    /\ args.i[1].EbsVolumeType = Some("gp2")
    /\ args.i[1].EbsVolumeIops = Some(3000)
    /\ ~panicked
    /\ out.EBS # None
    /\ out.EBS[1].IOPS = None
\* A string holding `=` after at least one character, then at least one
\* character, then `:`, then at least one more, all on one line.
HasKeyValueEffect(t) ==
    \E k, j \in 1..Len(t) :
        /\ 1 < k /\ k + 1 < j /\ j < Len(t)
        /\ t[k] = "=" /\ t[j] = ":"
        /\ \A i \in (k - 1)..(j + 1) : t[i] # "\n"

\* x occurs in t as a run of consecutive characters.
OccursIn(x, t) ==
    \E a \in 1..(Len(t) + 1) :
        a + Len(x) - 1 <= Len(t) /\ SubSeq(t, a, a + Len(x) - 1) = x

\* C4: buildOceanTaints never returns an error; a string that does not give
\* a key, a value and an effect is left out and the strings after it are
\* still processed; the output holds one record per well-formed string, in
\* input order.  "dedicated=true:NoSchedule" gives {dedicated, true,
\* NoSchedule}; "malformed" gives no record.
C4_MalformedTaintsDropped ==
    Done("buildOceanTaints") =>
        LET wellFormed == SelectSeq(args.taints, HasKeyValueEffect)
        IN  /\ ~panicked
            /\ err = None
            /\ Len(out) = Len(wellFormed)
            /\ Len(out) <= Len(args.taints)
            /\ \A i \in DOMAIN out :
                  /\ out[i].Key # None /\ out[i].Value # None /\ out[i].Effect # None
                  /\ OccursIn(out[i].Key[1] \o <<"=">> \o out[i].Value[1] \o <<":">>
                                 \o out[i].Effect[1],
                              wellFormed[i])
                  /\ wellFormed[i] = Dedicated =>
                        out[i] = [Key |-> Some(SubSeq(Dedicated, 1, 9)),
                                  Value |-> Some(SubSeq(Dedicated, 11, 14)),
                                  Effect |-> Some(SubSeq(Dedicated, 16, 25))]
            /\ \A i \in DOMAIN args.taints :
                  args.taints[i] = Malformed => Len(out) < Len(args.taints)

\* A malformed taint between two well-formed ones: both are parsed.
C4_Witness ==
    /\ Done("buildOceanTaints")
    /\ args.taints = <<Dedicated, Malformed, Dedicated>>
    /\ err = None
    /\ Len(out) = 2

\* The call parsed one taint, which holds no line break.
ParsedOneTaint ==
    /\ Done("buildOceanTaints")
    /\ Len(args.taints) = 1
    /\ \A i \in DOMAIN args.taints[1] : args.taints[1][i] # "\n"

Positions(t, c) == {i \in 1..Len(t) : t[i] = c}

\* Splitting on `=`, then the right part on `:`, with exactly two parts each
\* time and no part empty.
StrictSplitAccepts(t) ==
    /\ Cardinality(Positions(t, "=")) = 1
    /\ LET k == Min(Positions(t, "="))
       IN  /\ k > 1
           /\ Cardinality({j \in Positions(t, ":") : j > k}) = 1
           /\ LET j == Min({i \in Positions(t, ":") : i > k})
              IN  j > k + 1 /\ j < Len(t)
StrictSplit(t) ==
    LET k == Min(Positions(t, "="))
        j == Min({i \in Positions(t, ":") : i > k})
    IN  [Key |-> Some(SubSeq(t, 1, k - 1)),
         Value |-> Some(SubSeq(t, k + 1, j - 1)),
         Effect |-> Some(SubSeq(t, j + 1, Len(t)))]

\* C5 as stated: an accepted taint has as key what precedes the first `=`,
\* as effect what follows the last `:`, an effect without `:`, and the parse
\* accepts and yields what the strict split on `=` then `:` does.
C5_FirstEqualsLastColon ==
    ParsedOneTaint =>
        LET t == args.taints[1]
        IN  /\ (Len(out) = 1) <=> StrictSplitAccepts(t)
            /\ Len(out) = 1 =>
                  /\ out[1].Key = Some(SubSeq(t, 1, Min(Positions(t, "=")) - 1))
                  /\ out[1].Effect = Some(SubSeq(t, Max(Positions(t, ":")) + 1, Len(t)))
                  /\ Positions(out[1].Effect[1], ":") = {}
                  /\ out[1] = StrictSplit(t)

\* C5 (amended): a taint without line breaks is accepted exactly when some
\* `:` that is not its last character has an `=` at least two places before
\* it that is not its first character.  Then the effect is what follows the
\* last `:` that is not the last character (so it holds no `:` except
\* possibly as its last character), the key is what precedes the last `=`
\* at least two places before that `:`, and the value is what lies between.
\* The parse agrees with the strict split on every string the split accepts.
C5_LastEqualsLastInnerColon ==
    ParsedOneTaint =>
        LET t == args.taints[1]
            colons == {j \in Positions(t, ":") : j < Len(t)}
            equalsBefore(j) == {k \in Positions(t, "=") : 1 < k /\ k + 1 < j}
        IN  /\ (Len(out) = 1) <=> (\E j \in colons : equalsBefore(j) # {})
            /\ Len(out) = 1 =>
                  LET j == Max(colons)
                      k == Max(equalsBefore(j))
                  IN  /\ out[1] = [Key |-> Some(SubSeq(t, 1, k - 1)),
                                   Value |-> Some(SubSeq(t, k + 1, j - 1)),
                                   Effect |-> Some(SubSeq(t, j + 1, Len(t)))]
                      /\ Positions(out[1].Effect[1], ":") \subseteq {Len(t) - j}
            /\ StrictSplitAccepts(t) => (Len(out) = 1 /\ out[1] = StrictSplit(t))

\* A taint with two `=`: the key runs up to the second one.
C5_Witness ==
    /\ ParsedOneTaint
    /\ args.taints[1] = <<"a", "=", "a", "=", "a", ":", "a">>
    /\ Len(out) = 1
    /\ out[1].Key = Some(<<"a", "=", "a">>)

C7_OtherFunctionsTotal ==
    (/\ pc = "returned"
     /\ fn \in MapperNames \cup {"buildBlockDeviceMapping", "subnetSlicesEqualIgnoreOrder",
                                 "normalizeOrientation"})
        => ~panicked

\* C8: buildEphemeralDevices called without an instance type fails with
\* RequiredField("InstanceType"), returns no mapping, and has not called
\* the machine-type lookup.
C8_NilInstanceTypeFailsBeforeLookup ==
    (Done("buildEphemeralDevices") /\ args.instanceTypeName = None) =>
        /\ ~panicked
        /\ err = Some([kind |-> "RequiredField", detail |-> <<"InstanceType">>])
        /\ out = None
        /\ calls = <<>>

\* The call without an instance type has returned its error.
C8_Witness ==
    /\ Done("buildEphemeralDevices")
    /\ args.instanceTypeName = None
    /\ err # None

\* The last collaborator call failed.
LookupFailed == calls # <<>> /\ calls[Len(calls)].err # None

\* C9 as stated: when the machine-type lookup or the image lookup fails with
\* e, the builder returns that same e and no mapping.
C9_CollaboratorErrorUnchanged ==
    ((Done("buildEphemeralDevices") \/ Done("buildRootDevice")) /\ LookupFailed) =>
        /\ ~panicked
        /\ err = calls[Len(calls)].err
        /\ out = None

\* C9 (amended): when the machine-type lookup fails with e,
\* buildEphemeralDevices returns that same e and no mapping; when the image
\* lookup fails with e, buildRootDevice returns no mapping and a new error,
\* built by resolveImage, whose message holds the image name and e's text.
C9_MachineTypeErrorUnchangedImageErrorWrapped ==
    /\ (Done("buildEphemeralDevices") /\ LookupFailed) =>
          /\ ~panicked
          /\ err = calls[Len(calls)].err
          /\ out = None
    /\ (Done("buildRootDevice") /\ LookupFailed) =>
          /\ ~panicked
          /\ out = None
          /\ err # None
          /\ err # calls[Len(calls)].err
          /\ err[1].kind = "fmt.Errorf"
          /\ err[1].detail = <<"spotinst: unable to resolve image %q: %v",
                               calls[Len(calls)].arg,
                               calls[Len(calls)].err[1].detail[1]>>

\* An image lookup has failed and buildRootDevice has returned.
C9_Witness ==
    /\ Done("buildRootDevice")
    /\ LookupFailed
    /\ err # None

\* C10: normalizeOrientation returns balanced, costOriented,
\* availabilityOriented or equalAzDistribution and nothing else: "cost",
\* "availability" and "equal-distribution" give the last three, and nil and
\* every other string, "" and "costOriented" included, give balanced.
C10_OrientationClosed ==
    Done("normalizeOrientation") =>
        /\ ~panicked
        /\ err = None
        /\ out \in {"balanced", "costOriented", "availabilityOriented", "equalAzDistribution"}
        /\ out = IF args.orientation = Some("cost") THEN "costOriented"
                 ELSE IF args.orientation = Some("availability") THEN "availabilityOriented"
                 ELSE IF args.orientation = Some("equal-distribution")
                      THEN "equalAzDistribution"
                 ELSE "balanced"

\* The wire name "costOriented" given as input: balanced comes back.
C10_Witness ==
    /\ Done("normalizeOrientation")
    /\ args.orientation = Some("costOriented")
    /\ out = "balanced"
====
